---------------------------- MODULE Spec2Model ----------------------------
(***************************************************************************)
(* Connect Four: the Game class of connect4.js (players are the numbers 1  *)
(* and 2) and the Game class of the second source file, part_000 (players  *)
(* are two Player objects held in this.players, currPlayer is the index 0  *)
(* or 1).  The two pages are driven by the same stream of clicks, so one   *)
(* state holds both games: the unsuffixed names are connect4.js, the names *)
(* ending in P are part_000.                                               *)
(*                                                                         *)
(* A JS array row is a function from the property keys it holds to their   *)
(* values: Array.from({length: w}) holds the keys 0..w-1, all undefined; a *)
(* write to another key adds the key (an index >= length grows length, a   *)
(* negative key is a plain property).                                      *)
(***************************************************************************)
EXTENDS Integers, Sequences, FiniteSets, TLC

VARIABLES
    height, width,      \* this.height, this.width (same arguments in both files)
    board,              \* connect4.js: this.board, rows 0..length-1
    currPlayer,         \* connect4.js: this.currPlayer, 1 or 2
    gameOver,           \* connect4.js: this.gameOver
    tops,               \* connect4.js page: number of #column-top rows in #board
    out,                \* connect4.js: what the last handler did
    players,            \* part_000: this.players, a sequence of Player references
    boardP,             \* part_000: this.board
    currPlayerP,        \* part_000: this.currPlayer, 0 or 1
    gameOverP,          \* part_000: this.gameOver
    topsP,              \* part_000 page: number of #column-top rows in #board
    outP,               \* part_000: what the last handler did
    evt,                \* the last event dispatched: [op, x] and the two
                        \* gameOver flags it found
    lastBy, lastByP,    \* who placed the last piece of the current game
    status, statusP,    \* the alert that ended the current game, if one did
    scr,                \* how far the current game has followed Script
    steps               \* events since the starting position (Spec only)

vars == <<height, width, board, currPlayer, gameOver, tops, out,
          players, boardP, currPlayerP, gameOverP, topsP, outP, evt,
          lastBy, lastByP, status, statusP, scr, steps>>

---------------------------------------------------------------------------
(* Values *)

\* The value of a cell nothing was written to (Array.from leaves undefined).
Undefined == 0

\* findSpotForCol's "return null".
Null == -1

\* new Game(6, 7)
StdHeight == 6
StdWidth == 7

\* The number of events explored after each starting position of Spec.
MaxSteps == 4

\* The most cells written on a board of SpecBoards.
MaxPaint == 4

\* Constructor arguments of SpecBoards.
BoardDims == {<<4, 4>>, <<2, 5>>}

\* Constructor arguments of the small-board specification.
SmallDims == {<<2, 2>>, <<3, 4>>}

\* The references of the two Player objects setPlayers creates.  The objects
\* of the previous game are unreachable after resetGame (board and players
\* are both emptied), so each game's pair reuses the same two references.
\* The color field is display only and is not modelled.
NewPlayer1 == 1
NewPlayer2 == 2

NoAlert == "none"

---------------------------------------------------------------------------
(* JS arrays *)

\* row[k]: undefined when the key is absent.
Get(row, k) == IF k \in DOMAIN row THEN row[k] ELSE Undefined

\* row[k] = v
Put(row, k, v) == [j \in (DOMAIN row) \cup {k} |-> IF j = k THEN v ELSE row[j]]

\* row.length: one more than the largest index.
Length(row) ==
    LET idx == {k \in DOMAIN row : k >= 0}
    IN  IF idx = {} THEN 0 ELSE 1 + (CHOOSE m \in idx : \A k \in idx : k <= m)

\* Array.from({ length: w })
NewRow(w) == [k \in 0..(w - 1) |-> Undefined]

\* JS truthiness of a cell value
Truthy(v) == v # Undefined

\* row.every(cell => cell): every visits the indices 0..length-1 that exist.
RowEvery(row) == \A k \in DOMAIN row : k >= 0 => Truthy(row[k])

\* A tie check that is content with one full row.
BoardSome(b) == \E y \in DOMAIN b : RowEvery(b[y])

\* A tie check that asks for an untouched board: every cell falsy.
BoardNone(b) == \A y \in DOMAIN b : \A k \in DOMAIN b[y] : k >= 0 => ~Truthy(b[y][k])

\* this.board.every(row => row.every(cell => cell))
BoardEvery(b) == \A y \in DOMAIN b : RowEvery(b[y])

\* makeBoard: push `h` rows of width `w` onto b.
RECURSIVE makeBoard(_, _, _)
makeBoard(b, h, w) ==
    IF h = 0 THEN b
    ELSE LET n == Cardinality(DOMAIN b)
         IN  makeBoard([y \in 0..n |-> IF y = n THEN NewRow(w) ELSE b[y]], h - 1, w)

\* The empty array [].
EmptyArray == [y \in {} |-> Undefined]

\* document.getElementById(`${y}-${x}`) finds a cell of the table makeHtmlBoard
\* built: one td per y in 0..height-1 and x in 0..width-1.
HasSpot(h, w, y, x) == y >= 0 /\ y < h /\ x >= 0 /\ x < w

---------------------------------------------------------------------------
(* findSpotForCol: the same code in both files *)

RECURSIVE SpotFrom(_, _, _)
SpotFrom(b, y, x) ==
    IF y < 0 THEN Null
    ELSE IF ~Truthy(Get(b[y], x)) THEN y
    ELSE SpotFrom(b, y - 1, x)

\* A scan that runs from the top row down: it finds the highest empty cell.
RECURSIVE SpotFromTop(_, _, _, _)
SpotFromTop(b, h, y, x) ==
    IF y >= h THEN Null
    ELSE IF ~Truthy(Get(b[y], x)) THEN y
    ELSE SpotFromTop(b, h, y + 1, x)

findSpotForColTop(b, h, x) == SpotFromTop(b, h, 0, x)

\* A scan that answers row 0, not null, for a filled column.
findSpotForColNoNull(b, h, x) ==
    IF SpotFrom(b, h - 1, x) = Null THEN 0 ELSE SpotFrom(b, h - 1, x)

findSpotForCol(b, h, x) == SpotFrom(b, h - 1, x)

---------------------------------------------------------------------------
(* Win detection *)

\* The four check lists that start at (y, x).
horiz(y, x) == <<<<y, x>>, <<y, x + 1>>, <<y, x + 2>>, <<y, x + 3>>>>
\* A vertical list that skips a row.
vertGap(y, x) == <<<<y, x>>, <<y + 1, x>>, <<y + 2, x>>, <<y + 4, x>>>>

vert(y, x) == <<<<y, x>>, <<y + 1, x>>, <<y + 2, x>>, <<y + 3, x>>>>
diagDR(y, x) == <<<<y, x>>, <<y + 1, x + 1>>, <<y + 2, x + 2>>, <<y + 3, x + 3>>>>
\* A down-left list whose columns run right.
diagDLRight(y, x) == <<<<y, x>>, <<y + 1, x + 1>>, <<y + 2, x + 2>>, <<y + 3, x + 3>>>>

diagDL(y, x) == <<<<y, x>>, <<y + 1, x - 1>>, <<y + 2, x - 2>>, <<y + 3, x - 3>>>>

\* connect4.js _win: all four legal and equal to currPlayer.
_win(b, h, w, cp, cells) ==
    \A i \in DOMAIN cells :
        LET y == cells[i][1]
            x == cells[i][2]
        IN  y >= 0 /\ y < h /\ x >= 0 /\ x < w /\ b[y][x] = cp

\* connect4.js checkForWin
checkForWin(b, h, w, cp) ==
    \E y \in 0..(h - 1) : \E x \in 0..(w - 1) :
        \/ _win(b, h, w, cp, horiz(y, x))
        \/ _win(b, h, w, cp, vert(y, x))
        \/ _win(b, h, w, cp, diagDR(y, x))
        \/ _win(b, h, w, cp, diagDL(y, x))

\* part_000 _win: all four legal and the very object this.players[currPlayer].
_winP(b, h, w, ps, cp, cells) ==
    \A i \in DOMAIN cells :
        LET y == cells[i][1]
            x == cells[i][2]
        IN  y >= 0 /\ y < h /\ x >= 0 /\ x < w /\ b[y][x] = ps[cp + 1]

\* part_000 checkForWin
checkForWinP(b, h, w, ps, cp) ==
    \E y \in 0..(h - 1) : \E x \in 0..(w - 1) :
        \/ _winP(b, h, w, ps, cp, horiz(y, x))
        \/ _winP(b, h, w, ps, cp, vert(y, x))
        \/ _winP(b, h, w, ps, cp, diagDR(y, x))
        \/ _winP(b, h, w, ps, cp, diagDL(y, x))

---------------------------------------------------------------------------
(* Handlers.  Each returns the fields the handler leaves behind, and in    *)
(* `out` what it did: the row it wrote (Null when it wrote nothing), the    *)
(* alert it showed, and whether it ended in an uncaught TypeError.          *)

Out(y, alert, threw) == [y |-> y, alert |-> alert, threw |-> threw]

\* The handler wrote a cell and ran to its end (every write inside the grid
\* does: only a missing td makes placeInTable throw).
Landed(o) == o.y # Null /\ ~o.threw

WonMsg(n) == IF n = 1 THEN "Player 1 won!" ELSE "Player 2 won!"
TieMsg == "Tie!"

\* A handler that lost its gameOver test.
AcceptsAlways(go) == TRUE

\* if (!this.gameOver): the handler acts.
Accepts(go) == ~go

\* A switch whose two branches name the same player.
switchPlayersStuck(cp) == IF cp = 1 THEN 2 ELSE 2

\* connect4.js: this.currPlayer === 1 ? 2 : 1
switchPlayers(cp) == IF cp = 1 THEN 2 ELSE 1

\* part_000: this.currPlayer === 0 ? 1 : 0
switchPlayersP(cp) == IF cp = 0 THEN 1 ELSE 0

\* connect4.js handleClick, with x = +evt.target.id
handleClick(b, h, w, cp, go, x) ==
    LET y == findSpotForCol(b, h, x)
        b1 == [b EXCEPT ![y] = Put(b[y], x, cp)]
    IN  IF ~Accepts(go)
          THEN [board |-> b, currPlayer |-> cp, gameOver |-> go,
                out |-> Out(Null, NoAlert, FALSE)]
        ELSE IF y = Null
          THEN [board |-> b, currPlayer |-> cp, gameOver |-> go,
                out |-> Out(Null, NoAlert, FALSE)]
        ELSE IF ~HasSpot(h, w, y, x)
          \* placeInTable: spot is null, spot.append throws
          THEN [board |-> b1, currPlayer |-> cp, gameOver |-> go,
                out |-> Out(y, NoAlert, TRUE)]
        ELSE IF checkForWin(b1, h, w, cp)
          THEN [board |-> b1, currPlayer |-> cp, gameOver |-> TRUE,
                out |-> Out(y, WonMsg(cp), FALSE)]
        ELSE IF BoardEvery(b1)
          THEN [board |-> b1, currPlayer |-> cp, gameOver |-> TRUE,
                out |-> Out(y, TieMsg, FALSE)]
        ELSE [board |-> b1, currPlayer |-> switchPlayers(cp),
              gameOver |-> go, out |-> Out(y, NoAlert, FALSE)]

\* part_000 handleClick
handleClickP(b, h, w, ps, cp, go, x) ==
    LET y == findSpotForCol(b, h, x)
        b1 == [b EXCEPT ![y] = Put(b[y], x, ps[cp + 1])]
    IN  IF ~Accepts(go)
          THEN [board |-> b, currPlayer |-> cp, gameOver |-> go,
                out |-> Out(Null, NoAlert, FALSE)]
        ELSE IF y = Null
          THEN [board |-> b, currPlayer |-> cp, gameOver |-> go,
                out |-> Out(Null, NoAlert, FALSE)]
        ELSE IF ~HasSpot(h, w, y, x)
          THEN [board |-> b1, currPlayer |-> cp, gameOver |-> go,
                out |-> Out(y, NoAlert, TRUE)]
        ELSE IF checkForWinP(b1, h, w, ps, cp)
          THEN [board |-> b1, currPlayer |-> cp, gameOver |-> TRUE,
                out |-> Out(y, WonMsg(cp + 1), FALSE)]
        ELSE IF BoardEvery(b1)
          THEN [board |-> b1, currPlayer |-> cp, gameOver |-> TRUE,
                out |-> Out(y, TieMsg, FALSE)]
        ELSE [board |-> b1, currPlayer |-> switchPlayersP(cp),
              gameOver |-> go, out |-> Out(y, NoAlert, FALSE)]

\* A reset that leaves gameOver as it finds it.
resetGameKeepsOver(cp, go) ==
    [board |-> EmptyArray, currPlayer |-> cp, gameOver |-> go, tops |-> 0]

\* resetGame without board.innerText = '': the old column-top row stays.
resetGameKeepsHtml(cp, go) ==
    [board |-> EmptyArray, currPlayer |-> cp,
     gameOver |-> (IF go THEN FALSE ELSE go), tops |-> 1]

\* connect4.js resetGame: the fields it assigns (currPlayer is not among them).
resetGame(cp, go) ==
    [board |-> EmptyArray, currPlayer |-> cp,
     gameOver |-> (IF go THEN FALSE ELSE go), tops |-> 0]

\* part_000 resetGame
resetGameP(cp, go) ==
    [board |-> EmptyArray, players |-> << >>, currPlayer |-> 0,
     gameOver |-> (IF go THEN FALSE ELSE go), tops |-> 0]

\* part_000 setPlayers: this.players.push(p1, p2)
setPlayers(ps) == ps \o <<NewPlayer1, NewPlayer2>>

\* connect4.js: the Start button's listener
startClick(b, h, w, cp, go, t) ==
    LET r == IF Cardinality(DOMAIN b) # 0 THEN resetGame(cp, go)
             ELSE [board |-> b, currPlayer |-> cp, gameOver |-> go, tops |-> t]
    IN  [board |-> makeBoard(r.board, h, w), currPlayer |-> r.currPlayer,
         gameOver |-> r.gameOver, tops |-> r.tops + 1]

\* part_000: the Start button's listener
startClickP(b, h, w, ps, cp, go, t) ==
    LET r == IF Cardinality(DOMAIN b) # 0 THEN resetGameP(cp, go)
             ELSE [board |-> b, players |-> ps, currPlayer |-> cp,
                   gameOver |-> go, tops |-> t]
    IN  [board |-> makeBoard(r.board, h, w), players |-> setPlayers(r.players),
         currPlayer |-> r.currPlayer, gameOver |-> r.gameOver, tops |-> r.tops + 1]

---------------------------------------------------------------------------
(* The state machine *)

\* The scenario of the specification: player 1 in column 0, player 2 in
\* column 1, until player 1 has dropped four.
Script == <<0, 1, 0, 1, 0, 1, 0>>

\* scr after a click on x: one more click of Script matched, or off it.
Follow(m, x) ==
    IF m.on /\ m.n < Len(Script) /\ x = Script[m.n + 1]
    THEN [on |-> TRUE, n |-> m.n + 1]
    ELSE [on |-> FALSE, n |-> 0]

\* The state the constructor leaves, for new Game(h, w) on both pages.
Constructed(h, w) ==
    [height |-> h, width |-> w,
     board |-> EmptyArray, currPlayer |-> 1, gameOver |-> FALSE, tops |-> 0,
     out |-> Out(Null, NoAlert, FALSE),
     players |-> << >>, boardP |-> EmptyArray, currPlayerP |-> 0,
     gameOverP |-> FALSE, topsP |-> 0, outP |-> Out(Null, NoAlert, FALSE),
     evt |-> [op |-> "new", x |-> Null, over |-> FALSE, overP |-> FALSE],
     lastBy |-> Undefined, lastByP |-> Undefined,
     status |-> NoAlert, statusP |-> NoAlert,
     scr |-> [on |-> FALSE, n |-> 0]]

\* The state after a click on the Start button in state s.  The script is
\* followed from a game that player 1 opens.
OnStart(s) ==
    LET n == startClick(s.board, s.height, s.width, s.currPlayer, s.gameOver, s.tops)
        p == startClickP(s.boardP, s.height, s.width, s.players, s.currPlayerP,
                         s.gameOverP, s.topsP)
    IN  [s EXCEPT !.board = n.board, !.currPlayer = n.currPlayer,
                  !.gameOver = n.gameOver, !.tops = n.tops,
                  !.out = Out(Null, NoAlert, FALSE),
                  !.boardP = p.board, !.players = p.players,
                  !.currPlayerP = p.currPlayer, !.gameOverP = p.gameOver,
                  !.topsP = p.tops, !.outP = Out(Null, NoAlert, FALSE),
                  !.evt = [op |-> "start", x |-> Null,
                           over |-> s.gameOver, overP |-> s.gameOverP],
                  !.lastBy = Undefined, !.lastByP = Undefined,
                  !.status = NoAlert, !.statusP = NoAlert,
                  !.scr = [on |-> (n.currPlayer = 1 /\ p.currPlayer = 0), n |-> 0]]

\* The state after a click whose target id converts to x, in state s.
OnClick(s, x) ==
    LET n == handleClick(s.board, s.height, s.width, s.currPlayer, s.gameOver, x)
        p == handleClickP(s.boardP, s.height, s.width, s.players, s.currPlayerP,
                          s.gameOverP, x)
    IN  [s EXCEPT !.board = n.board, !.currPlayer = n.currPlayer,
                  !.gameOver = n.gameOver, !.out = n.out,
                  !.boardP = p.board, !.currPlayerP = p.currPlayer,
                  !.gameOverP = p.gameOver, !.outP = p.out,
                  !.evt = [op |-> "click", x |-> x,
                           over |-> s.gameOver, overP |-> s.gameOverP],
                  !.lastBy = IF Landed(n.out) THEN n.board[n.out.y][x] ELSE s.lastBy,
                  !.lastByP = IF Landed(p.out) THEN p.board[p.out.y][x] ELSE s.lastByP,
                  !.status = IF n.out.alert # NoAlert THEN n.out.alert ELSE s.status,
                  !.statusP = IF p.out.alert # NoAlert THEN p.out.alert ELSE s.statusP,
                  !.scr = Follow(s.scr, x)]

\* The state after the clicks of xs, in order.
RECURSIVE Play(_, _)
Play(s, xs) == IF xs = << >> THEN s ELSE Play(OnClick(s, Head(xs)), Tail(xs))

\* The current state, and the next state, as records.
Cur ==
    [height |-> height, width |-> width,
     board |-> board, currPlayer |-> currPlayer, gameOver |-> gameOver,
     tops |-> tops, out |-> out,
     players |-> players, boardP |-> boardP, currPlayerP |-> currPlayerP,
     gameOverP |-> gameOverP, topsP |-> topsP, outP |-> outP,
     evt |-> evt, lastBy |-> lastBy, lastByP |-> lastByP,
     status |-> status, statusP |-> statusP, scr |-> scr]

Becomes(t) ==
    /\ height' = t.height /\ width' = t.width
    /\ board' = t.board /\ currPlayer' = t.currPlayer /\ gameOver' = t.gameOver
    /\ tops' = t.tops /\ out' = t.out
    /\ players' = t.players /\ boardP' = t.boardP /\ currPlayerP' = t.currPlayerP
    /\ gameOverP' = t.gameOverP /\ topsP' = t.topsP /\ outP' = t.outP
    /\ evt' = t.evt /\ lastBy' = t.lastBy /\ lastByP' = t.lastByP
    /\ status' = t.status /\ statusP' = t.statusP /\ scr' = t.scr

Starts(t) ==
    /\ height = t.height /\ width = t.width
    /\ board = t.board /\ currPlayer = t.currPlayer /\ gameOver = t.gameOver
    /\ tops = t.tops /\ out = t.out
    /\ players = t.players /\ boardP = t.boardP /\ currPlayerP = t.currPlayerP
    /\ gameOverP = t.gameOverP /\ topsP = t.topsP /\ outP = t.outP
    /\ evt = t.evt /\ lastBy = t.lastBy /\ lastByP = t.lastByP
    /\ status = t.status /\ statusP = t.statusP /\ scr = t.scr

\* A click on the Start button.
Start == Becomes(OnStart(Cur))

\* A click on one of the column tops makeHtmlBoard made, ids 0..width-1.
\* There is a column top to click once a board was made.
ColumnClick == tops > 0 /\ topsP > 0 /\ \E x \in 0..(width - 1) : Becomes(OnClick(Cur, x))

\* A click event whose target id is no column: -1 or width.
StrayClick == tops > 0 /\ topsP > 0 /\ \E x \in {-1, width} : Becomes(OnClick(Cur, x))

\* Starting positions of Spec: new Game(6, 7) untouched, and positions of
\* games on it and on a 3 x 4 board, each reached from the constructor by a
\* Start click and the clicks listed.
Openings ==
    { [h |-> StdHeight, w |-> StdWidth, xs |-> <<0, 1, 0, 1>>],
      [h |-> StdHeight, w |-> StdWidth, xs |-> <<3, 0, 0, 1, 6, 2, 2, 1, 1>>],
      [h |-> StdHeight, w |-> StdWidth, xs |-> <<3, 6, 6, 5, 0, 4, 4, 5, 5>>],
      [h |-> 3, w |-> 4, xs |-> <<0, 2, 1, 1, 3, 1, 0, 0, 2>>] }

Init ==
    /\ steps = 0
    /\ \/ Starts(Constructed(StdHeight, StdWidth))
       \/ \E o \in Openings : Starts(Play(OnStart(Constructed(o.h, o.w)), o.xs))

Next ==
    \/ steps < MaxSteps /\ steps' = steps + 1 /\ Start
    \/ steps < MaxSteps /\ steps' = steps + 1 /\ ColumnClick
    \/ steps < MaxSteps /\ steps' = steps + 1 /\ StrayClick

Spec == Init /\ [][Next]_vars

\* Small boards from the constructor on, explored to the end of every game.
InitSmall == steps = 0 /\ \E d \in SmallDims : Starts(Constructed(d[1], d[2]))

NextSmall ==
    \/ Start /\ UNCHANGED steps
    \/ ColumnClick /\ UNCHANGED steps

SpecSmall == InitSmall /\ [][NextSmall]_vars

\* One game on each board of LiveDims, never reset: the Start button is
\* clicked once, and the players keep clicking columns that are not full.
\* On the 2 x 4 board a game can be won (a row of four) or tied.
LiveDims == {<<2, 2>>, <<2, 4>>}

InitLive == steps = 0 /\ \E d \in LiveDims : Starts(Constructed(d[1], d[2]))

FirstStart ==
    /\ tops = 0 /\ topsP = 0
    /\ \E s \in {Cur} : \E t \in {OnStart(s)} : Becomes(t)
    /\ UNCHANGED steps

\* A click on column x of the grid; placing tells whether it must place a
\* piece.
ClickOn(x, placing) ==
    /\ tops > 0 /\ topsP > 0
    /\ \E s \in {Cur} : \E t \in {OnClick(s, x)} :
          /\ placing => Landed(t.out) /\ Landed(t.outP)
          /\ Becomes(t)
    /\ UNCHANGED steps

Placement == \E x \in 0..(width - 1) : ClickOn(x, TRUE)

NextLive ==
    \/ FirstStart
    \/ \E x \in 0..(width - 1) : ClickOn(x, FALSE)

SpecLive ==
    /\ InitLive /\ [][NextLive]_vars
    /\ WF_vars(FirstStart) /\ WF_vars(Placement)

\* Boards of any content, for checkForWin as a function of the board.  A
\* board starts with every cell Empty, or every cell the other player's; any
\* cell is then given to the player p that checkForWin is run for, as
\* handleClick runs it after its write.
Painted(b, v) == Cardinality({c \in (DOMAIN b) \X (0..(width - 1)) : b[c[1]][c[2]] = v})

Filled(h, w, v) == [y \in 0..(h - 1) |-> [x \in 0..(w - 1) |-> v]]

Paint(y, x) ==
    LET b == [board EXCEPT ![y] = Put(board[y], x, currPlayer)]
        bP == [boardP EXCEPT ![y] = Put(boardP[y], x, players[currPlayerP + 1])]
    IN  /\ board[y][x] # currPlayer
        /\ board' = b /\ gameOver' = checkForWin(b, height, width, currPlayer)
        /\ boardP' = bP
        /\ gameOverP' = checkForWinP(bP, height, width, players, currPlayerP)
        /\ evt' = [op |-> "paint", x |-> Null, over |-> FALSE, overP |-> FALSE]
        /\ UNCHANGED <<height, width, currPlayer, currPlayerP, tops, out, players,
                       topsP, outP, lastBy, lastByP, status, statusP, scr, steps>>

InitBoards ==
    /\ steps = 0
    /\ \E d \in BoardDims, p \in {1, 2}, bg \in {Undefined, 1, 2} :
          LET s == OnStart(Constructed(d[1], d[2]))
          IN  /\ bg # p
              /\ Starts([s EXCEPT !.board = Filled(d[1], d[2], bg),
                                  !.boardP = Filled(d[1], d[2], bg),
                                  !.currPlayer = p, !.currPlayerP = p - 1])

NextBoards ==
    /\ Painted(board, currPlayer) < MaxPaint
    /\ \E y \in 0..(height - 1), x \in 0..(width - 1) : Paint(y, x)

SpecBoards == InitBoards /\ [][NextBoards]_vars

---------------------------------------------------------------------------
(* The vocabulary of the claims *)

Rows == 0..(height - 1)
Cols == 0..(width - 1)
Grid == Rows \X Cols

\* A click event was the last event.
Clicked == evt.op = "click"

\* The keys of every row of b, as (row, key) pairs.
Keys(b) == UNION {{<<y, k>> : k \in DOMAIN b[y]} : y \in DOMAIN b}

\* Column x of b has an Empty cell.
HasEmpty(b, x) == \E y \in Rows : b[y][x] = Undefined

\* The Empty cell of column x with the highest row index.
LowestEmpty(b, x) ==
    CHOOSE y \in Rows : b[y][x] = Undefined /\ \A z \in Rows : b[z][x] = Undefined => z <= y

\* a is b with p written to (y, x) and nothing else changed, no key added.
OnlyWrote(a, b, y, x, p) ==
    /\ DOMAIN a = DOMAIN b
    /\ \A r \in DOMAIN b : DOMAIN a[r] = DOMAIN b[r]
    /\ \A c \in Keys(b) : a[c[1]][c[2]] = IF c = <<y, x>> THEN p ELSE b[c[1]][c[2]]

\* The four cells from (y, x) in direction d.
Dirs == {<<0, 1>>, <<1, 0>>, <<1, 1>>, <<1, -1>>}
RunCells(y, x, d) == {<<y + k * d[1], x + k * d[2]>> : k \in 0..3}

\* b holds a run of four of p in direction d that lies inside the grid.
HasRunIn(b, p, d) ==
    \E c \in Grid :
        /\ RunCells(c[1], c[2], d) \subseteq Grid
        /\ \A r \in RunCells(c[1], c[2], d) : b[r[1]][r[2]] = p

HasRun(b, p) == \E d \in Dirs : HasRunIn(b, p, d)

WonMsgs == {WonMsg(1), WonMsg(2)}

\* The number, 1 or 2, of the player whose Player object is r.
NumberOf(r) == CHOOSE i \in DOMAIN players : players[i] = r

---------------------------------------------------------------------------
(* C1..C10 *)

\* C1: in an in-progress game, a click on a column in [0, W) that has an
\* Empty cell writes the active player to the Empty cell of that column with
\* the highest row index and changes no other cell.
C1_DropsToLowestEmpty ==
    [][ evt'.op = "click" /\ evt'.x \in Cols =>
          /\ (~gameOver /\ HasEmpty(board, evt'.x)) =>
                OnlyWrote(board', board, LowestEmpty(board, evt'.x), evt'.x, currPlayer)
          /\ (~gameOverP /\ HasEmpty(boardP, evt'.x)) =>
                OnlyWrote(boardP', boardP, LowestEmpty(boardP, evt'.x), evt'.x,
                          players[currPlayerP + 1]) ]_vars

\* A piece of player 2 has just landed on a piece of player 1, in both games.
C1_Witness ==
    /\ Clicked /\ evt.x \in Cols
    /\ Landed(out) /\ out.y < height - 1
    /\ board[out.y][evt.x] = 2 /\ board[out.y + 1][evt.x] = 1
    /\ Landed(outP) /\ outP.y = out.y
    /\ boardP[outP.y][evt.x] = players[2] /\ boardP[outP.y + 1][evt.x] = players[1]

\* C2: after a successful placement the game is won by the mover exactly when
\* the board holds a run of four of the mover's cells, inside the grid, in one
\* of the four directions; a win is only ever announced for the mover.
C2_WonIffRunOfMover ==
    /\ (Clicked /\ Landed(out)) =>
          LET m == board[out.y][evt.x]
          IN  /\ (gameOver /\ out.alert = WonMsg(m)) <=> HasRun(board, m)
              /\ out.alert \in WonMsgs => out.alert = WonMsg(m)
    /\ (Clicked /\ Landed(outP)) =>
          LET m == NumberOf(boardP[outP.y][evt.x])
          IN  /\ (gameOverP /\ outP.alert = WonMsg(m)) <=> HasRun(boardP, players[m])
              /\ outP.alert \in WonMsgs => outP.alert = WonMsg(m)

\* Player 1 has just won with a down-left diagonal and no other run, in both
\* games.
C2_Witness ==
    /\ Clicked /\ Landed(out) /\ gameOver /\ out.alert = WonMsg(1)
    /\ HasRunIn(board, 1, <<1, -1>>)
    /\ \A d \in Dirs \ {<<1, -1>>} : ~HasRunIn(board, 1, d)
    /\ Landed(outP) /\ gameOverP /\ outP.alert = WonMsg(1)
    /\ HasRunIn(boardP, players[1], <<1, -1>>)

\* The other of the two players, by number (connect4.js) and by index
\* (part_000).
OtherOf(p) == CHOOSE q \in {1, 2} : q # p
OtherOfP(i) == CHOOSE j \in {0, 1} : j # i

\* C3: the active player flips after a successful placement that leaves the
\* game in progress and is unchanged after every other click; the piece is
\* the active player's, so two successive pieces of a game are never placed
\* by the same player.
C3_TurnAlternates ==
    [][ evt'.op = "click" =>
          /\ currPlayer' = IF Landed(out') /\ ~gameOver' THEN OtherOf(currPlayer)
                           ELSE currPlayer
          /\ Landed(out') => lastBy' = currPlayer /\ lastBy' # lastBy
          /\ currPlayerP' = IF Landed(outP') /\ ~gameOverP' THEN OtherOfP(currPlayerP)
                            ELSE currPlayerP
          /\ Landed(outP') =>
                lastByP' = players[currPlayerP + 1] /\ lastByP' # lastByP ]_vars

\* Player 2 has just placed a piece after one of player 1, the game goes on
\* and player 1 is active again, in both games.
C3_Witness ==
    /\ Clicked /\ Landed(out) /\ ~gameOver
    /\ board[out.y][evt.x] = 2 /\ lastBy = 2 /\ currPlayer = 1
    /\ \E c \in Grid : board[c[1]][c[2]] = 1
    /\ Landed(outP) /\ ~gameOverP /\ lastByP = players[2] /\ currPlayerP = 0

\* C4: once gameOver is set, a click on any column changes neither the board
\* nor the active player, announces nothing and leaves gameOver set.
C4_TerminalIgnoresClicks ==
    [][ evt'.op = "click" =>
          /\ gameOver =>
                /\ board' = board /\ currPlayer' = currPlayer /\ gameOver'
                /\ out' = Out(Null, NoAlert, FALSE)
          /\ gameOverP =>
                /\ boardP' = boardP /\ currPlayerP' = currPlayerP /\ gameOverP'
                /\ outP' = Out(Null, NoAlert, FALSE) ]_vars

\* A column that still has an Empty cell was clicked after the game ended, in
\* both games.
C4_Witness ==
    /\ Clicked /\ evt.x \in Cols
    /\ evt.over /\ gameOver /\ HasEmpty(board, evt.x)
    /\ evt.overP /\ gameOverP /\ HasEmpty(boardP, evt.x)

\* C5: a click on a column in [0, W) with no Empty cell ends normally and
\* changes neither the board, nor the active player, nor gameOver.
C5_FullColumnIgnored ==
    [][ evt'.op = "click" /\ evt'.x \in Cols =>
          /\ ~HasEmpty(board, evt'.x) =>
                /\ board' = board /\ currPlayer' = currPlayer /\ gameOver' = gameOver
                /\ out' = Out(Null, NoAlert, FALSE)
          /\ ~HasEmpty(boardP, evt'.x) =>
                /\ boardP' = boardP /\ currPlayerP' = currPlayerP
                /\ gameOverP' = gameOverP
                /\ outP' = Out(Null, NoAlert, FALSE) ]_vars

\* A full column was clicked while the game was in progress, in both games.
C5_Witness ==
    /\ Clicked /\ evt.x \in Cols
    /\ ~evt.over /\ ~gameOver /\ ~HasEmpty(board, evt.x) /\ out.y = Null
    /\ ~evt.overP /\ ~gameOverP /\ ~HasEmpty(boardP, evt.x) /\ outP.y = Null

\* Every row of b has the keys 0..W-1 and no other.
WellFormed(b) ==
    \A y \in DOMAIN b : DOMAIN b[y] = Cols /\ Length(b[y]) = width

\* C6: a click whose column index is outside [0, W) writes no cell, inside or
\* outside the grid, keeps every row W long, and changes neither the active
\* player nor gameOver.
C6_InvalidColumnRejected ==
    [][ evt'.op = "click" /\ evt'.x \notin Cols =>
          /\ board' = board /\ WellFormed(board')
          /\ currPlayer' = currPlayer /\ gameOver' = gameOver
          /\ boardP' = boardP /\ WellFormed(boardP')
          /\ currPlayerP' = currPlayerP /\ gameOverP' = gameOverP ]_vars

\* Every cell of the grid of b is written.
Full(b) == \A c \in Grid : b[c[1]][c[2]] # Undefined

\* C7: after a successful placement the game is tied exactly when every cell
\* of the grid is non-Empty and the mover has no run of four; a placement
\* that fills the grid and completes a run of four is a win.
C7_TiedIffFullAndNoWin ==
    /\ (Clicked /\ Landed(out)) =>
          LET m == board[out.y][evt.x]
          IN  /\ (gameOver /\ out.alert = TieMsg) <=> (Full(board) /\ ~HasRun(board, m))
              /\ (Full(board) /\ HasRun(board, m)) => (gameOver /\ out.alert = WonMsg(m))
    /\ (Clicked /\ Landed(outP)) =>
          LET m == NumberOf(boardP[outP.y][evt.x])
          IN  /\ (gameOverP /\ outP.alert = TieMsg)
                    <=> (Full(boardP) /\ ~HasRun(boardP, players[m]))
              /\ (Full(boardP) /\ HasRun(boardP, players[m]))
                    => (gameOverP /\ outP.alert = WonMsg(m))

\* The last cell of a board that can hold a run of four was filled and no run
\* of four exists: the game is tied, in both games.
C7_Witness ==
    /\ Clicked /\ Landed(out) /\ width >= 4
    /\ Full(board) /\ ~HasRun(board, 1) /\ ~HasRun(board, 2)
    /\ gameOver /\ out.alert = TieMsg
    /\ Landed(outP) /\ Full(boardP) /\ gameOverP /\ outP.alert = TieMsg

\* The last cell was filled and it completed a run of four.
C7_FullBoardWin ==
    /\ Clicked /\ Landed(out) /\ Full(board)
    /\ gameOver /\ out.alert \in WonMsgs
    /\ Landed(outP) /\ Full(boardP) /\ gameOverP /\ outP.alert \in WonMsgs

\* C8: after a Start click the active player is player 1 (number 1 in
\* connect4.js, index 0 in part_000).
C8_ResetActivatesPlayerOne ==
    evt.op = "start" => currPlayer = 1 /\ currPlayerP = 0

\* b is a board of h rows of w cells, all Empty, and nothing else.
Fresh(b, h, w) ==
    /\ DOMAIN b = 0..(h - 1)
    /\ \A y \in DOMAIN b :
          /\ DOMAIN b[y] = 0..(w - 1)
          /\ \A x \in DOMAIN b[y] : b[y][x] = Undefined

\* C9: a Start click leaves H and W as they were, a board of exactly H rows
\* of W Empty cells, and gameOver false, whatever the state before it.
C9_ResetGivesFreshBoard ==
    [][ evt'.op = "start" =>
          /\ height' = height /\ width' = width
          /\ Fresh(board', height, width) /\ ~gameOver'
          /\ Fresh(boardP', height, width) /\ ~gameOverP' ]_vars

\* A Start click has just reset a game that was over, in both games.
C9_Witness ==
    /\ evt.op = "start" /\ evt.over /\ evt.overP
    /\ Fresh(board, height, width) /\ ~gameOver
    /\ Fresh(boardP, height, width) /\ ~gameOverP

\* C10: on a 6 x 7 board, in a game player 1 opens, the clicks 0, 1, 0, 1,
\* 0, 1, 0 leave the game in progress up to the sixth and won by player 1 at
\* the seventh, with player 1 in rows 5, 4, 3, 2 of column 0, player 2 in rows
\* 5, 4, 3 of column 1, and player 1 still active.
C10_ScriptedWin ==
    (height = 6 /\ width = 7 /\ scr.on) =>
        /\ scr.n < 7 => ~gameOver /\ ~gameOverP
        /\ scr.n = 7 =>
              /\ gameOver /\ out.alert = WonMsg(1) /\ currPlayer = 1
              /\ \A y \in {5, 4, 3, 2} : board[y][0] = 1
              /\ \A y \in {5, 4, 3} : board[y][1] = 2
              /\ gameOverP /\ outP.alert = WonMsg(1) /\ currPlayerP = 0
              /\ \A y \in {5, 4, 3, 2} : boardP[y][0] = players[1]
              /\ \A y \in {5, 4, 3} : boardP[y][1] = players[2]

\* The seventh click of the script has just been handled on a 6 x 7 board.
C10_Witness == height = 6 /\ width = 7 /\ scr.on /\ scr.n = 7 /\ Clicked

---------------------------------------------------------------------------
(* C11..C20 *)

\* b with every row reversed: column x becomes column W-1-x.
Mirror(b) == [y \in DOMAIN b |-> [x \in DOMAIN b[y] |-> b[y][width - 1 - x]]]

\* C11: for every board content and each player, checkForWin answers the same
\* on the board and on the board with each row reversed.
C11_WinMirrorSymmetric ==
    evt.op = "paint" =>
        /\ \A p \in {1, 2} :
              checkForWin(board, height, width, p)
                 <=> checkForWin(Mirror(board), height, width, p)
        /\ \A i \in {0, 1} :
              checkForWinP(boardP, height, width, players, i)
                 <=> checkForWinP(Mirror(boardP), height, width, players, i)

\* A board whose only run of four is a down-left diagonal of the player just
\* checked, found by checkForWin in both files; its mirror's is down-right.
C11_Witness ==
    /\ evt.op = "paint" /\ gameOver /\ gameOverP
    /\ HasRunIn(board, currPlayer, <<1, -1>>)
    /\ ~HasRunIn(board, currPlayer, <<1, 1>>)
    /\ HasRunIn(Mirror(board), currPlayer, <<1, 1>>)


\* b holds a run of four of p, inside the grid, that contains the cell (y, x):
\* the run starts j cells before (y, x) in direction d.
RunThrough(b, p, y, x) ==
    \E d \in Dirs, j \in 0..3 :
        LET y0 == y - j * d[1]
            x0 == x - j * d[2]
        IN  /\ y0 >= 0 /\ y0 + 3 * d[1] < height
            /\ x0 >= 0 /\ x0 < width /\ x0 + 3 * d[2] >= 0 /\ x0 + 3 * d[2] < width
            /\ \A k \in 0..3 : b[y0 + k * d[1]][x0 + k * d[2]] = p

\* C12: immediately after a successful placement at (y, x), checkForWin over
\* the whole board answers true for the mover exactly when some run of four
\* of the mover, inside the grid, contains the cell (y, x); the announced win
\* follows that answer.
C12_ScanEqualsLinesThroughLast ==
    /\ (Clicked /\ Landed(out)) =>
          LET m == board[out.y][evt.x]
          IN  /\ checkForWin(board, height, width, m)
                    <=> RunThrough(board, m, out.y, evt.x)
              /\ out.alert = WonMsg(m) <=> RunThrough(board, m, out.y, evt.x)
    /\ (Clicked /\ Landed(outP)) =>
          LET i == NumberOf(boardP[outP.y][evt.x]) - 1
          IN  /\ checkForWinP(boardP, height, width, players, i)
                    <=> RunThrough(boardP, players[i + 1], outP.y, evt.x)
              /\ outP.alert = WonMsg(i + 1)
                    <=> RunThrough(boardP, players[i + 1], outP.y, evt.x)

\* A piece has just completed a horizontal run of four in the middle of the
\* run, in both games.
C12_Witness ==
    /\ Clicked /\ Landed(out) /\ Landed(outP) /\ gameOver /\ gameOverP
    /\ evt.x \in 1..(width - 2)
    /\ \E m \in {1, 2} :
          /\ board[out.y][evt.x] = m
          /\ board[out.y][evt.x - 1] = m /\ board[out.y][evt.x + 1] = m
          /\ HasRunIn(board, m, <<0, 1>>)
          /\ RunThrough(boardP, players[m], outP.y, evt.x)


\* C13: driven by the same Start clicks and column clicks, the game of
\* connect4.js and the game of part_000 agree after every step on which cells
\* are occupied and by which of the two players, on the active player, on
\* whether the game is over and on what was announced.
C13_VariantsAgree ==
    (tops > 0 /\ topsP > 0) =>
        /\ \A c \in Grid :
              \/ board[c[1]][c[2]] = Undefined /\ boardP[c[1]][c[2]] = Undefined
              \/ /\ board[c[1]][c[2]] \in {1, 2}
                 /\ boardP[c[1]][c[2]] = players[board[c[1]][c[2]]]
        /\ currPlayer = currPlayerP + 1
        /\ gameOver = gameOverP
        /\ out.alert = outP.alert


\* No written cell of the grid of a differs in b.
KeepsPieces(a, b) ==
    \A c \in Grid : a[c[1]][c[2]] # Undefined => b[c[1]][c[2]] = a[c[1]][c[2]]

\* C14: a click never changes a written cell of the grid, neither back to
\* Empty nor to the other player, and once a game was started the board has
\* exactly H rows of exactly W cells.
C14_CellsMonotonicDimsFixed ==
    [][ /\ evt'.op = "click" =>
              KeepsPieces(board, board') /\ KeepsPieces(boardP, boardP')
        /\ (tops' > 0 /\ topsP' > 0) =>
              WellFormed(board') /\ WellFormed(boardP') ]_vars

\* The part of C14 that in-range clicks can test: a click on a column of the
\* grid keeps every written cell and the dimensions.
C14_InRange ==
    [][ evt'.op = "click" /\ evt'.x \in Cols =>
          /\ KeepsPieces(board, board') /\ KeepsPieces(boardP, boardP')
          /\ WellFormed(board) => WellFormed(board')
          /\ WellFormed(boardP) => WellFormed(boardP') ]_vars


\* The number of written cells of b, inside and outside the grid.
Pieces(b) == Cardinality({c \in Keys(b) : b[c[1]][c[2]] # Undefined})

\* C15: after any number of Start clicks the page holds exactly one
\* column-top row, so exactly one click listener; one click places at most
\* one piece, and a placement that leaves the game in progress advances the
\* turn once.
C15_OneHandlerOneEvaluation ==
    [][ /\ evt'.op = "start" => tops' = 1 /\ topsP' = 1
        /\ evt'.op = "click" =>
              /\ tops' = 1 /\ topsP' = 1
              /\ Pieces(board') - Pieces(board) = (IF out'.y # Null THEN 1 ELSE 0)
              /\ Pieces(boardP') - Pieces(boardP) = (IF outP'.y # Null THEN 1 ELSE 0)
              /\ currPlayer' = (IF Landed(out') /\ ~gameOver'
                                THEN OtherOf(currPlayer) ELSE currPlayer)
              /\ currPlayerP' = (IF Landed(outP') /\ ~gameOverP'
                                 THEN OtherOfP(currPlayerP) ELSE currPlayerP) ]_vars

\* The first click of a game started by a second Start click (player 2 opens
\* it in connect4.js) has placed the only piece of the board.
C15_Witness ==
    /\ Clicked /\ Landed(out) /\ Landed(outP)
    /\ tops = 1 /\ topsP = 1
    /\ Pieces(board) = 1 /\ Pieces(boardP) = 1
    /\ board[out.y][evt.x] = 2 /\ currPlayer = 1


\* In every column of the grid of b no Empty cell lies below a written one.
Stacked(b) ==
    \A c \in Grid :
        (c[1] + 1 < height /\ b[c[1]][c[2]] # Undefined) => b[c[1] + 1][c[2]] # Undefined

\* C16: in every state reached by Start clicks and clicks on columns of the
\* grid, the written cells of each column are a contiguous stack resting on
\* the bottom row: no Empty cell at (y + 1, x) below a written cell (y, x).
C16_Gravity ==
    (tops > 0 /\ topsP > 0) => Stacked(board) /\ Stacked(boardP)

\* A piece has just landed on another with an Empty cell above it, next to a
\* column that is still Empty, in both games.
C16_Witness ==
    /\ Clicked /\ Landed(out) /\ Landed(outP) /\ evt.x \in Cols
    /\ out.y = height - 2 /\ out.y > 0 /\ outP.y = out.y
    /\ board[out.y - 1][evt.x] = Undefined /\ boardP[out.y - 1][evt.x] = Undefined
    /\ board[out.y + 1][evt.x] # Undefined /\ boardP[out.y + 1][evt.x] # Undefined
    /\ \E x \in Cols : board[height - 1][x] = Undefined


\* The values that fill some run of four inside the grid of b.
RunOwners(b) ==
    {b[c[1]][c[2]] :
        c \in {g \in Grid :
                 /\ b[g[1]][g[2]] # Undefined
                 /\ \E d \in Dirs :
                       /\ g[1] + 3 * d[1] < height
                       /\ g[2] + 3 * d[2] >= 0 /\ g[2] + 3 * d[2] < width
                       /\ \A k \in 1..3 :
                             b[g[1] + k * d[1]][g[2] + k * d[2]] = b[g[1]][g[2]]}}

\* C17: while a started game is in progress neither player has a run of four
\* on the board; while it is over with a win announced for player p, p has a
\* run of four and the other player has none.
C17_StatusMatchesRuns ==
    /\ (tops > 0 /\ ~gameOver) => RunOwners(board) = {}
    /\ (topsP > 0 /\ ~gameOverP) => RunOwners(boardP) = {}
    /\ \A p \in {1, 2} :
          /\ (gameOver /\ status = WonMsg(p)) => RunOwners(board) = {p}
          /\ (gameOverP /\ statusP = WonMsg(p)) => RunOwners(boardP) = {players[p]}

\* Player 2 has won, and a click made after the win was ignored, in both
\* games.
C17_Witness ==
    /\ Clicked /\ evt.over /\ evt.overP
    /\ gameOver /\ status = WonMsg(2) /\ HasRun(board, 2)
    /\ gameOverP /\ statusP = WonMsg(2) /\ HasRun(boardP, players[2])


\* The number of cells of the grid of b that hold v.
Held(b, v) == Cardinality({c \in Grid : b[c[1]][c[2]] = v})

\* C18: in every state of a started game the numbers of cells of the grid
\* held by the two players differ by at most one, and while the game is in
\* progress the active player holds no more cells than the other player.
C18_PieceCountBalance ==
    /\ tops > 0 =>
          /\ Held(board, 1) - Held(board, 2) \in {-1, 0, 1}
          /\ ~gameOver => Held(board, currPlayer) <= Held(board, OtherOf(currPlayer))
    /\ topsP > 0 =>
          /\ Held(boardP, players[1]) - Held(boardP, players[2]) \in {-1, 0, 1}
          /\ ~gameOverP =>
                Held(boardP, players[currPlayerP + 1])
                    <= Held(boardP, players[OtherOfP(currPlayerP) + 1])

\* Player 2 opened a game of connect4.js after a reset and holds one cell
\* more than player 1, who is active; in part_000 player 1 opened it.
C18_Witness ==
    /\ Clicked /\ Landed(out) /\ Landed(outP) /\ ~gameOver /\ ~gameOverP
    /\ Held(board, 2) = 2 /\ Held(board, 1) = 1 /\ currPlayer = 1
    /\ Held(boardP, players[1]) = 2 /\ Held(boardP, players[2]) = 1
    /\ currPlayerP = 1


\* C19: while a started game is in progress some column of the grid has an
\* Empty cell and a click on it is accepted: it places a piece.  A full board
\* with the game in progress is unreachable.
C19_NoStuckGame ==
    /\ (tops > 0 /\ ~gameOver) =>
          /\ ~Full(board)
          /\ \E x \in Cols :
                /\ HasEmpty(board, x)
                /\ Landed(handleClick(board, height, width, currPlayer, gameOver, x).out)
    /\ (topsP > 0 /\ ~gameOverP) =>
          /\ ~Full(boardP)
          /\ \E x \in Cols :
                /\ HasEmpty(boardP, x)
                /\ Landed(handleClickP(boardP, height, width, players, currPlayerP,
                                       gameOverP, x).out)

\* A game in progress with one Empty cell left after the last placement, in
\* both games.
C19_Witness ==
    /\ Clicked /\ Landed(out) /\ Landed(outP) /\ ~gameOver /\ ~gameOverP
    /\ Held(board, Undefined) = 1 /\ Held(boardP, Undefined) = 1
    /\ Pieces(board) = height * width - 1


\* C20: in a game that is never reset, each accepted click adds exactly one
\* written cell and every other click adds none, the game is over by the
\* time H * W cells are written, and if the players keep clicking columns
\* that are not full the game is eventually over, won or tied.
C20_EveryGameTerminates ==
    /\ [][ evt'.op = "click" =>
             /\ Pieces(board') = Pieces(board) + (IF Landed(out') THEN 1 ELSE 0)
             /\ Pieces(boardP') = Pieces(boardP) + (IF Landed(outP') THEN 1 ELSE 0) ]_vars
    /\ [](tops > 0 =>
             /\ Pieces(board) <= height * width /\ Pieces(boardP) <= height * width
             /\ Pieces(board) = height * width => gameOver
             /\ Pieces(boardP) = height * width => gameOverP)
    /\ <>(/\ gameOver /\ status \in WonMsgs \cup {TieMsg}
          /\ gameOverP /\ statusP \in WonMsgs \cup {TieMsg})

\* The eighth placement on the 2 x 4 board has tied the game, in both games.
C20_Witness ==
    /\ Clicked /\ Landed(out) /\ Landed(outP)
    /\ width = 4 /\ Pieces(board) = height * width /\ Pieces(boardP) = height * width
    /\ gameOver /\ status = TieMsg /\ gameOverP /\ statusP = TieMsg

=============================================================================
